---- MODULE Spec2Model ----
(***************************************************************************)
(* Model of the ontology annotator: the matching cascade of                *)
(* OntologyAnnotator.annotate / annotate_batch, the two lookup clients     *)
(* (OLSClient, BioPortalClient) with their retrying _get, result fusion    *)
(* (_deduplicate, confidence filter, sort), the annotate_ontology_terms    *)
(* handler and EntityExtractor._parse_response.                            *)
(*                                                                         *)
(* Strings are sequences of one-character tokens, so that formatting       *)
(* (the deduplication key), lower-casing, searching and slicing are        *)
(* computed as Python computes them.  The token "U0130" stands for the     *)
(* character U+0130 (capital I with dot above), whose str.lower() is the   *)
(* two characters "i" U+0307; the token "U0307" stands for U+0307.         *)
(* Confidences are in hundredths (0.98 is 98).                             *)
(***************************************************************************)
EXTENDS Integers, Sequences, FiniteSets, TLC

VARIABLES
    \* ---- _handle_annotate / annotate_batch / annotate ----
    args,        \* the arguments of the call (texts, domain, flags)
    settings,    \* Settings: whether bioportal_api_key is configured
    closed,      \* which clients of the annotator are closed ("ols", "bp")
    hpc,         \* position of _handle_annotate
    response,    \* what the handler returned
    bpc,         \* position of annotate_batch (asyncio.gather)
    results,     \* the list annotate_batch returns
    texts,       \* the parsed list of texts handed to annotate_batch
    pc,          \* per task: the await point of annotate
    attempt,     \* per task: attempt number of the request in flight (tenacity)
    calls,       \* per task: how often each provider operation was invoked
    got,         \* per task: how many candidates each operation returned (-1: none yet)
    served,      \* per task: the candidates each operation returned (<<>> before)
    collected,   \* per task: the local list `matches` before fusion
    result,      \* per task: the dict annotate returned
    exc,         \* per task: the exception annotate raised ("none" if none)
    finished,    \* task indices in the order the event loop completed them
    \* ---- _deduplicate as a pure function ----
    d_in, d_out, d_pc,
    \* ---- EntityExtractor._parse_response as a pure function ----
    p_original, p_content, p_out, p_pc,
    \* ---- _handle_extract / EntityExtractor ----
    x_args,      \* the arguments of the call (text, domains)
    x_key,       \* Settings: whether anthropic_api_key is configured
    x_pc,        \* position of _handle_extract
    x_calls,     \* how often messages.create was invoked
    x_entities,  \* what EntityExtractor.extract returned
    x_response,  \* what the handler returned
    \* ---- OntologyAnnotator._resolve_ontologies as a pure function ----
    r_domain, r_preferred, r_configured, r_out, r_pc,
    \* ---- one lookup operation of a client, called directly ----
    c_op,        \* the operation
    c_query,     \* its query
    c_key,       \* Settings: whether bioportal_api_key is configured
    c_tried,     \* the outcomes of the attempts of _get so far
    c_sent,      \* how many HTTP requests were sent
    c_max_results, \* Settings: ols_max_results / bioportal_max_results of the client
    c_rows,      \* the rows / pagesize parameter of the last request, 0 before it
    c_rows_arg,  \* the rows argument of a direct call of search
    c_payload,   \* the docs / collection of the response received
    c_pc,        \* position of the operation
    c_out        \* what the operation returned, or the exception it raised

vars == <<args, settings, closed, hpc, response, bpc, results, texts, pc, attempt, calls,
          got, served, collected, result, exc, finished,
          d_in, d_out, d_pc, p_original, p_content, p_out, p_pc,
          x_args, x_key, x_pc, x_calls, x_entities, x_response,
          r_domain, r_preferred, r_configured, r_out, r_pc,
          c_op, c_query, c_key, c_tried, c_sent, c_payload,
          c_pc, c_out, c_max_results, c_rows, c_rows_arg>>

annVars == <<args, settings, closed, hpc, response, bpc, results, texts, pc, attempt, calls,
             got, served, collected, result, exc, finished>>
dedupVars == <<d_in, d_out, d_pc>>
parseVars == <<p_original, p_content, p_out, p_pc>>
extractVars == <<x_args, x_key, x_pc, x_calls, x_entities, x_response>>
resolveVars == <<r_domain, r_preferred, r_configured, r_out, r_pc>>
clientVars == <<c_op, c_query, c_key, c_tried, c_sent, c_payload,
          c_pc, c_out, c_max_results, c_rows, c_rows_arg>>

(***************************************************************************)
(* Bounds of the model.                                                    *)
(***************************************************************************)
MaxTexts == 2       \* longest batch
MaxDocs == 2        \* most records in one provider response
MaxMatches == 3     \* longest list handed to _deduplicate
MaxEntities == 2    \* most elements in one extractor response

(***************************************************************************)
(* Python string primitives.                                               *)
(***************************************************************************)
\* the value None where a string is expected (a token that is no character)
NoneStr == <<"None">>

\* what stands in a dict for a key the dict does not hold
Absent == <<"Absent">>

\* d.get(key, default): the default only for a key that is missing
Get(x, default) == IF x = Absent THEN default ELSE x

\* d.get(key) or default, x or default: None, a missing key and "" are falsy
Or(x, default) == IF x \in {NoneStr, Absent, <<>>} THEN default ELSE x

\* how an f-string renders x: None as the four characters of its name
Format(x) == IF x = NoneStr THEN <<"N", "o", "n", "e">> ELSE x

\* str.lower() of one character
LowerChar(c) ==
    CASE c = "A" -> <<"a">>
      [] c = "B" -> <<"b">>
      [] c = "M" -> <<"m">>
      [] c = "O" -> <<"o">>
      [] c = "U0130" -> <<"i", "U0307">>
      [] OTHER -> <<c>>

RECURSIVE Lower(_)
\* str.lower()
Lower(s) == IF s = <<>> THEN <<>> ELSE LowerChar(Head(s)) \o Lower(Tail(s))

\* does needle occur in hay at 0-based index i
OccursAt(hay, needle, i) ==
    /\ i >= 0
    /\ i + Len(needle) <= Len(hay)
    /\ SubSeq(hay, i + 1, i + Len(needle)) = needle

\* str.find(): lowest 0-based index of needle in hay, -1 when absent
Find(hay, needle) ==
    LET hits == {i \in 0..Len(hay) : OccursAt(hay, needle, i)}
    IN  IF hits = {} THEN -1 ELSE CHOOSE i \in hits : \A j \in hits : i <= j

\* one bound of a slice, as Python normalises it against the length n
SliceBound(x, n) ==
    IF x < 0 THEN (IF x + n < 0 THEN 0 ELSE x + n)
    ELSE (IF x > n THEN n ELSE x)

\* s[start:end] for integers start, end
Slice(s, start, end) ==
    LET lo == SliceBound(start, Len(s))
        hi == SliceBound(end, Len(s))
    IN  IF lo < hi THEN SubSeq(s, lo + 1, hi) ELSE <<>>

(***************************************************************************)
(* annotator.py: _deduplicate                                              *)
(***************************************************************************)
\* the f-string key of line 85
DedupKey(m) ==
    IF m.term_id \notin {<<>>, NoneStr}
    THEN Format(m.ontology) \o <<":">> \o Format(m.term_id)
    ELSE Format(m.ontology) \o <<":">> \o Format(m.label)

RECURSIVE DedupFrom(_, _, _)
\* the loop of lines 84-88: seen is the set of keys, unique the list so far
DedupFrom(matches, seen, unique) ==
    IF matches = <<>> THEN unique
    ELSE LET m == Head(matches)
             key == DedupKey(m)
         IN  IF key \notin seen
             THEN DedupFrom(Tail(matches), seen \cup {key}, Append(unique, m))
             ELSE DedupFrom(Tail(matches), seen, unique)

DedupKeepAll(matches) == matches

\* _deduplicate
Deduplicate(matches) == DedupFrom(matches, {}, <<>>)

\* ---- _deduplicate applied to arbitrary lists of matches ----
DedupOntologies == {<<"a">>, <<"a", ":", "b">>}
DedupTermIds == {<<>>, <<"c">>, <<"b", ":", "c">>}
DedupLabels == {<<"c">>, <<"x">>, NoneStr, <<"N", "o", "n", "e">>}
DedupMatches == [ontology : DedupOntologies, term_id : DedupTermIds, label : DedupLabels]

SeqsUpTo(S, n) == UNION {[1..k -> S] : k \in 0..n}

DedupInputs == SeqsUpTo(DedupMatches, MaxMatches)


(***************************************************************************)
(* extractor.py: EntityExtractor._parse_response                           *)
(*                                                                         *)
(* The extractor's content is modelled after json.loads: it is not JSON,   *)
(* JSON that is no list, or a list of elements.  An element is a dict or   *)
(* not; the fields of a dict are JSON values tagged with their type.       *)
(***************************************************************************)
VALID_DOMAINS == {"disease", "chemical", "gene", "phenotype", "anatomy", "organism"}

\* JSON values of the fields text, start_pos, end_pos: t is the type
JNull == [t |-> "null", s |-> <<>>, n |-> 0]
JStr(str) == [t |-> "str", s |-> str, n |-> 0]
JInt(i) == [t |-> "int", s |-> <<>>, n |-> i]
JList == [t |-> "list", s |-> <<>>, n |-> 0]       \* a non-empty list
JOther == [t |-> "other", s |-> <<>>, n |-> 0]     \* a float or a string offset
\* JSON values of the field domain: d is the string
DNull == [t |-> "null", d |-> ""]
DStr(str) == [t |-> "str", d |-> str]
DInt == [t |-> "int", d |-> ""]                    \* a non-zero number
DList == [t |-> "list", d |-> ""]                  \* a non-empty list
\* JSON values of the field confidence: n is the number in hundredths
CNull == [t |-> "null", n |-> 0]
CNum(x) == [t |-> "num", n |-> x]
CNumStr(x) == [t |-> "numstr", n |-> x]            \* a string float() parses
CWord == [t |-> "word", n |-> 0]                   \* a string float() rejects
CList == [t |-> "list", n |-> 0]                   \* a non-empty list

\* Python truth of a text or offset value (the operand of `or`)
Truthy(v) ==
    CASE v.t = "null" -> FALSE
      [] v.t = "str" -> v.s # <<>>
      [] v.t = "int" -> v.n # 0
      [] OTHER -> TRUE

NoEntity == [text |-> <<>>, start_pos |-> 0, end_pos |-> 0, domain |-> "",
             extraction_confidence |-> 0]

Skip == [k |-> "skip", e |-> NoEntity]
Raise == [k |-> "raise", e |-> NoEntity]
Accept(ent) == [k |-> "accept", e |-> ent]

\* lines 114-120: must the offsets be re-derived
NeedsRepair(ent, original_text) ==
    \/ ent.start_pos.t # "int"
    \/ ent.end_pos.t # "int"
    \/ Slice(original_text, ent.start_pos.n, ent.end_pos.n) # ent.text.s

\* lines 121-130: the offsets re-derived by a search in the lower-cased text
Repaired(ent, original_text) ==
    LET idx == Find(Lower(original_text), Lower(ent.text.s))
    IN  IF idx = -1 THEN Skip
        ELSE Accept([text |-> ent.text.s, start_pos |-> idx,
                     end_pos |-> idx + Len(ent.text.s), domain |-> ent.domain.d,
                     extraction_confidence |-> ent.confidence.n])

\* lines 100-140: one element of the list
ParseEntity(ent, original_text) ==
    IF ~ent.dict THEN Skip                                   \* line 100
    ELSE IF ent.confidence.t \in {"word", "list"} THEN Raise \* line 104: float()
    ELSE IF ~Truthy(ent.text) THEN Skip                      \* line 106
    ELSE IF ent.domain.t = "list" THEN Raise                 \* line 106: unhashable
    ELSE IF ~(ent.domain.t = "str" /\ ent.domain.d \in VALID_DOMAINS) THEN Skip
    ELSE IF ent.text.t # "str" THEN Raise                    \* line 121: .lower()
    ELSE IF NeedsRepair(ent, original_text) THEN Repaired(ent, original_text)
    ELSE Accept([text |-> ent.text.s, start_pos |-> ent.start_pos.n,
                 end_pos |-> ent.end_pos.n, domain |-> ent.domain.d,
                 extraction_confidence |-> ent.confidence.n])

RECURSIVE ParseEntities(_, _, _)
\* the loop of lines 99-140: validated is the list so far
ParseEntities(items, original_text, validated) ==
    IF items = <<>> THEN [status |-> "ok", entities |-> validated]
    ELSE LET r == ParseEntity(Head(items), original_text)
         IN  CASE r.k = "raise" -> [status |-> "raise", entities |-> <<>>]
               [] r.k = "skip" -> ParseEntities(Tail(items), original_text, validated)
               [] OTHER -> ParseEntities(Tail(items), original_text,
                                         Append(validated, r.e))

\* _parse_response
ParseResponse(content, original_text) ==
    IF content.kind = "notjson" THEN [status |-> "ok", entities |-> <<>>]   \* 88-92
    ELSE IF content.kind = "nonlist" THEN [status |-> "ok", entities |-> <<>>] \* 94-96
    ELSE ParseEntities(content.items, original_text, <<>>)

\* ---- _parse_response applied to arbitrary responses ----
Originals == { <<"b", "a", "b">>, <<"a", "B">>, <<"U0130", "a", "b">>, <<"x", "x">> }
EntityTexts == { <<"a", "b">>, <<"b">> }
StartValues == {JNull, JInt(-1), JInt(0), JInt(1), JInt(2)}
EndValues == {JNull, JInt(1), JInt(3), JOther}

Element(text, domain, confidence, start_pos, end_pos) ==
    [dict |-> TRUE, text |-> text, domain |-> domain, confidence |-> confidence,
     start_pos |-> start_pos, end_pos |-> end_pos]

\* elements of the right shape
WellFormedElements ==
    {Element(JStr(t), DStr("disease"), CNum(90), sp, ep) :
        t \in EntityTexts, sp \in StartValues, ep \in EndValues}

\* elements of the wrong shape, or with a domain outside the fixed set
MalformedElements ==
    { [Element(JNull, DNull, CNull, JNull, JNull) EXCEPT !.dict = FALSE],
      Element(JStr(<<"b">>), DStr("food"), CNum(90), JInt(0), JInt(1)),
      Element(JStr(<<"b">>), DNull, CNum(90), JInt(0), JInt(1)),
      Element(JStr(<<"b">>), DInt, CNum(90), JInt(0), JInt(1)),
      Element(JStr(<<"b">>), DList, CNum(90), JInt(0), JInt(1)),
      Element(JStr(<<>>), DStr("disease"), CNum(90), JInt(0), JInt(1)),
      Element(JNull, DStr("disease"), CNum(90), JInt(0), JInt(1)),
      Element(JInt(5), DStr("disease"), CNum(90), JInt(0), JInt(1)),
      Element(JList, DStr("disease"), CNum(90), JInt(0), JInt(1)),
      Element(JStr(<<"b">>), DStr("disease"), CWord, JInt(0), JInt(1)),
      Element(JStr(<<"b">>), DStr("disease"), CList, JInt(0), JInt(1)),
      Element(JStr(<<"b">>), DStr("disease"), CNumStr(90), JInt(0), JInt(1)),
      Element(JStr(<<"b">>), DStr("disease"), CNull, JInt(0), JInt(1)) }

Elements == WellFormedElements \cup MalformedElements

Contents ==
    {[kind |-> "notjson", items |-> <<>>], [kind |-> "nonlist", items |-> <<>>]}
    \cup {[kind |-> "list", items |-> its] : its \in SeqsUpTo(Elements, MaxEntities)}


(***************************************************************************)
(* ols_client.py: OLSClient                                                *)
(*                                                                         *)
(* A raw doc carries label, obo_id, short_form, ontology_name, synonym and  *)
(* obo_xref; description and iri are copied through and read by nothing    *)
(* modelled here, and so is the cross_references dict built from obo_xref. *)
(* synonym is absent, null, a list or a single string; obo_xref is absent, *)
(* null or a list whose elements are dicts (database and id a string, null *)
(* or missing) or something else.                                          *)
(***************************************************************************)
\* lines 104-106 and 150-152: doc.get("synonym", []) or [], a string wrapped
SynonymList(doc) ==
    CASE doc.synonym.k = "list" -> doc.synonym.v
      [] doc.synonym.k = "str" -> (IF doc.synonym.v[1] = <<>> THEN <<>> ELSE doc.synonym.v)
      [] OTHER -> <<>>

\* line 112: xref.get("database", "").lower() on an element of obo_xref that is
\* a dict whose database is null raises AttributeError
ParseTermRaises(doc) ==
    /\ doc.obo_xref.k = "list"
    /\ \E k \in 1..Len(doc.obo_xref.v) :
          doc.obo_xref.v[k].dict /\ doc.obo_xref.v[k].database = NoneStr

\* _parse_term, when it returns
ParseTerm(doc) ==
    [term_id |-> Or(doc.obo_id, Or(doc.short_form, <<>>)),
     label |-> Get(doc.label, <<>>),
     ontology |-> Get(doc.ontology_name, <<>>),
     synonyms |-> SynonymList(doc)]

\* [self._parse_term(d) for d in docs]
ParseTerms(docs) == [k \in 1..Len(docs) |-> ParseTerm(docs[k])]

\* the docs an operation hands to _parse_term, in order: find_exact those whose
\* label is the query (lines 136-139), find_by_synonym those with a synonym that
\* is the query and a label that is not (lines 149-157), fuzzy_search all
\* (line 165), search and get_term none
ParsedDocs(op, query, docs) ==
    LET hasSynonym(doc) ==
            \E k \in 1..Len(SynonymList(doc)) : Lower(SynonymList(doc)[k]) = Lower(query)
        labelIs(doc) == Lower(Or(doc.label, <<>>)) = Lower(query)
        synonymOnly(doc) == hasSynonym(doc) /\ ~labelIs(doc)
    IN  CASE op = "ols_find_exact" -> SelectSeq(docs, labelIs)
          [] op = "ols_find_by_synonym" -> SelectSeq(docs, synonymOnly)
          [] op = "ols_fuzzy_search" -> docs
          [] OTHER -> <<>>

\* does _parse_term raise on one of the docs the operation hands to it
ParseRaises(op, query, docs) ==
    \E k \in 1..Len(ParsedDocs(op, query, docs)) :
        ParseTermRaises(ParsedDocs(op, query, docs)[k])

OlsFindExactTrustsRemote(query, docs) == ParseTerms(docs)

\* find_exact, lines 134-140, on the docs search returned
OlsFindExact(query, docs) == ParseTerms(ParsedDocs("ols_find_exact", query, docs))

OlsFindBySynonymKeepsLabelMatches(query, docs) ==
    LET keep(doc) ==
            \E k \in 1..Len(SynonymList(doc)) : Lower(SynonymList(doc)[k]) = Lower(query)
    IN  ParseTerms(SelectSeq(docs, keep))

\* find_by_synonym, lines 147-158
OlsFindBySynonym(query, docs) ==
    ParseTerms(ParsedDocs("ols_find_by_synonym", query, docs))

\* fuzzy_search, lines 164-165
OlsFuzzySearch(query, docs) == ParseTerms(ParsedDocs("ols_fuzzy_search", query, docs))

\* search, lines 87-90: the raw docs of the response
OlsSearch(docs) == docs

\* get_term, line 96: results[0] if results else None, None being <<>> and a
\* doc the list of that doc
OlsGetTerm(docs) == IF OlsSearch(docs) # <<>> THEN <<OlsSearch(docs)[1]>> ELSE <<>>

(***************************************************************************)
(* bioportal_client.py: BioPortalClient                                    *)
(***************************************************************************)
Contains(s, c) == \E k \in 1..Len(s) : s[k] = c

RECURSIVE RStrip(_, _)
\* str.rstrip(c)
RStrip(s, c) ==
    IF s # <<>> /\ s[Len(s)] = c THEN RStrip(SubSeq(s, 1, Len(s) - 1), c) ELSE s

\* s.rsplit(c, 1)[-1] and s.split(c)[-1]: what follows the last c
AfterLast(s, c) ==
    LET at == {k \in 1..Len(s) : s[k] = c}
    IN  IF at = {} THEN s
        ELSE SubSeq(s, (CHOOSE k \in at : \A j \in at : j <= k) + 1, Len(s))

\* str.replace("_", ":")
Replace(s, a, b) == [k \in 1..Len(s) |-> IF s[k] = a THEN b ELSE s[k]]

\* lines 102-107: the short identifier made from @id
ShortId(at_id) ==
    LET afterSlash ==
            IF Contains(at_id, "/") /\ AfterLast(at_id, "/") # <<>>
            THEN Replace(AfterLast(at_id, "/"), "_", ":") ELSE at_id
    IN  IF Contains(at_id, "#") /\ AfterLast(at_id, "#") # <<>>
        THEN Replace(AfterLast(at_id, "#"), "_", ":") ELSE afterSlash

\* _parse_result; line 100: item.get("@id") or item.get("id") or ""
ParseResult(item) ==
    [term_id |-> ShortId(Or(item.at_id, Or(item.id, <<>>))),
     label |-> Or(item.prefLabel, <<>>),
     ontology |-> IF Or(item.ontology_link, <<>>) = <<>> THEN <<>>
                  ELSE Lower(AfterLast(RStrip(item.ontology_link, "/"), "/")),
     synonyms |-> SynonymList(item)]

\* line 156: [self._parse_result(item) for item in items]
ParseResults(items) == [k \in 1..Len(items) |-> ParseResult(items[k])]

\* search, lines 155-156
BpSearch(items) == ParseResults(items)

\* find_exact, lines 161-163, on the parsed results of search
BpFindExact(query, items) ==
    LET keep(r) == Lower(Or(r.label, <<>>)) = Lower(query)
    IN  SelectSeq(ParseResults(items), keep)

\* fuzzy_search, line 168
BpFuzzySearch(query, items) == ParseResults(items)

(***************************************************************************)
(* annotator.py: the cascade of OntologyAnnotator.annotate                 *)
(***************************************************************************)
CONFIDENCE_EXACT_LABEL == 98
CONFIDENCE_SYNONYM == 85
CONFIDENCE_OLS_SEARCH == 75
CONFIDENCE_BIOPORTAL == 70

\* stop_after_attempt(3) of both _get
StopAfterAttempt == 3

\* the provider operations, in the order annotate awaits them
Ops == <<"ols_find_exact", "ols_find_by_synonym", "ols_fuzzy_search",
         "bp_find_exact", "bp_fuzzy_search">>
OpSet == {Ops[k] : k \in 1..Len(Ops)}
OlsOps == {"ols_find_exact", "ols_find_by_synonym", "ols_fuzzy_search"}
BpOps == {"bp_find_exact", "bp_fuzzy_search"}

\* _raw_to_match
RawToMatch(raw, match_type, confidence) ==
    [term_id |-> Or(raw.term_id, <<>>),
     label |-> Or(raw.label, <<>>),
     ontology |-> Or(raw.ontology, <<>>),
     match_type |-> match_type,
     confidence |-> confidence,
     synonyms |-> raw.synonyms]

\* the match_type annotate tags the candidates of an operation with
MatchTypeOf(op) ==
    CASE op = "ols_find_exact" -> "exact_label"
      [] op = "ols_find_by_synonym" -> "synonym"
      [] op = "ols_fuzzy_search" -> "ols_search"
      [] OTHER -> "bioportal"

ConfidenceByProviderMatch(op) ==
    CASE op \in {"ols_find_exact", "bp_find_exact"} -> CONFIDENCE_EXACT_LABEL
      [] op = "ols_find_by_synonym" -> CONFIDENCE_SYNONYM
      [] op = "ols_fuzzy_search" -> CONFIDENCE_OLS_SEARCH
      [] OTHER -> CONFIDENCE_BIOPORTAL

\* the confidence annotate tags the candidates of an operation with
ConfidenceOf(op) ==
    CASE op = "ols_find_exact" -> CONFIDENCE_EXACT_LABEL
      [] op = "ols_find_by_synonym" -> CONFIDENCE_SYNONYM
      [] op = "ols_fuzzy_search" -> CONFIDENCE_OLS_SEARCH
      [] OTHER -> CONFIDENCE_BIOPORTAL

\* what an operation returns for the payload its search received
Candidates(op, query, payload) ==
    CASE op = "ols_find_exact" -> OlsFindExact(query, payload)
      [] op = "ols_find_by_synonym" -> OlsFindBySynonym(query, payload)
      [] op = "ols_fuzzy_search" -> OlsFuzzySearch(query, payload)
      [] op = "bp_find_exact" -> BpFindExact(query, payload)
      [] op = "ols_search" -> OlsSearch(payload)
      [] op = "ols_get_term" -> OlsGetTerm(payload)
      [] op = "bp_search" -> BpSearch(payload)
      [] OTHER -> BpFuzzySearch(query, payload)

\* lines 141-142, 147-148, 153-154, 161-162: the candidates appended as matches
StageMatches(op, cands) ==
    [k \in 1..Len(cands) |-> RawToMatch(cands[k], MatchTypeOf(op), ConfidenceOf(op))]

FallbackWithoutCredential == args.use_bioportal_fallback

\* line 157: is the fallback stage entered
FallbackEnabled == args.use_bioportal_fallback /\ settings.bioportal_api_key

\* the operation annotate awaits after op returned nothing, "none" when it goes
\* on to fusion
NextOp(op) ==
    CASE op = "ols_find_exact" -> "ols_find_by_synonym"
      [] op = "ols_find_by_synonym" -> "ols_fuzzy_search"
      [] op = "ols_fuzzy_search" -> (IF FallbackEnabled THEN "bp_find_exact" ELSE "none")
      [] op = "bp_find_exact" -> "bp_fuzzy_search"
      [] OTHER -> "none"

\* lines 145, 151, 157, 159: annotate awaits no further operation once matches is
\* not empty (next is the operation that would follow, "none" after the last)
CascadeNeverStopsEarly(matches, next) == next = "none"

CascadeStops(matches, next) == matches # <<>> \/ next = "none"

FilterAboveConfidence(matches, min_confidence) ==
    LET keep(m) == m.confidence > min_confidence
    IN  SelectSeq(matches, keep)

\* line 166
FilterByConfidence(matches, min_confidence) ==
    LET keep(m) == m.confidence >= min_confidence
    IN  SelectSeq(matches, keep)

RECURSIVE InsertDescending(_, _)
\* m put behind every element whose confidence is not lower (a stable sort)
InsertDescending(sorted, m) ==
    IF sorted = <<>> THEN <<m>>
    ELSE IF Head(sorted).confidence >= m.confidence
         THEN <<Head(sorted)>> \o InsertDescending(Tail(sorted), m)
         ELSE <<m>> \o sorted

RECURSIVE SortFrom(_, _)
SortFrom(matches, sorted) ==
    IF matches = <<>> THEN sorted
    ELSE SortFrom(Tail(matches), InsertDescending(sorted, Head(matches)))

\* line 169: list.sort(key=confidence, reverse=True)
SortByConfidence(matches) == SortFrom(matches, <<>>)

\* lines 165-174: fusion of the accumulated matches into the returned dict
Fuse(text, matches, min_confidence) ==
    [input_text |-> text,
     matches |-> SortByConfidence(FilterByConfidence(Deduplicate(matches), min_confidence))]

(***************************************************************************)
(* What the environment supplies: the arguments of a call and the payloads *)
(* of the two remote services.                                             *)
(***************************************************************************)
Queries == { <<"a", "b">>, <<"b">> }

\* a doc without the key obo_xref
OlsDoc(label, obo_id, short_form, ontology_name, synonym) ==
    [label |-> label, obo_id |-> obo_id, short_form |-> short_form,
     ontology_name |-> ontology_name, synonym |-> synonym,
     obo_xref |-> [k |-> "absent", v |-> <<>>]]

\* the docs the primary service may put into response.docs: two with the label
\* "ab" in different case and the same identifier (one as obo_id, one as
\* short_form), the first with a cross-reference; one without label and
\* identifier that has synonyms; and one with the label "ab" and a
\* cross-reference whose database is null
OlsDocs ==
    { [OlsDoc(<<"A", "B">>, <<"M", ":", "1">>, NoneStr, <<"m", "o">>,
              [k |-> "null", v |-> <<>>])
          EXCEPT !.obo_xref = [k |-> "list",
                               v |-> << [dict |-> TRUE, database |-> <<"D">>,
                                         id |-> <<"1">>] >>]],
      OlsDoc(<<"a", "b">>, NoneStr, <<"M", ":", "1">>, <<"m", "o">>,
             [k |-> "str", v |-> << <<"B">> >>]),
      OlsDoc(NoneStr, NoneStr, NoneStr, <<"m", "o">>,
             [k |-> "list", v |-> << <<"A", "b">>, <<"b">> >>]),
      [OlsDoc(<<"a", "b">>, <<"M", ":", "1">>, Absent, <<"m", "o">>,
              [k |-> "absent", v |-> <<>>])
          EXCEPT !.obo_xref = [k |-> "list",
                               v |-> << [dict |-> TRUE, database |-> NoneStr,
                                         id |-> <<"1">>] >>]] }

BpItem(prefLabel, at_id, id, ontology_link, synonym) ==
    [prefLabel |-> prefLabel, at_id |-> at_id, id |-> id,
     ontology_link |-> ontology_link, synonym |-> synonym]

\* the items the fallback service may put into collection: one identified by
\* "@id" and "id", one by "id" alone
BpItems ==
    { BpItem(<<"A", "b">>, <<"h", "/", "M", "_", "1">>, <<"x">>,
             <<"h", "/", "M", "O", "/">>, [k |-> "absent", v |-> <<>>]),
      BpItem(NoneStr, NoneStr, <<"u", "#", "z">>, NoneStr, [k |-> "null", v |-> <<>>]) }

\* the rows argument of search when its caller passes none
NoRows == 0

OlsPayloads == SeqsUpTo(OlsDocs, MaxDocs)
BpPayloads == SeqsUpTo(BpItems, MaxDocs)

\* the texts argument of the handler: a string, a list of strings, or neither
\* (s is the string, l the list)
TextsArgs ==
    {[kind |-> "str", s |-> q, l |-> <<>>] : q \in Queries}
    \cup {[kind |-> "list", s |-> <<>>, l |-> ts] : ts \in SeqsUpTo(Queries, MaxTexts)}
    \cup {[kind |-> "other", s |-> <<>>, l |-> <<>>]}

DomainArgs == {"None", "food"}
MinConfidences == {70, 80}

\* the arguments of a call of annotate_ontology_terms; the empty domain is tried
\* with one text
AnnotateArgs ==
    [texts : TextsArgs, domain : DomainArgs,
     use_bioportal_fallback : BOOLEAN, min_confidence : MinConfidences]
    \cup [texts : {[kind |-> "str", s |-> <<"b">>, l |-> <<>>]}, domain : {""},
          use_bioportal_fallback : {FALSE}, min_confidence : {70}]

NoResponse == [kind |-> "none", error |-> "", annotations |-> <<>>]
ErrorResponse(why) == [kind |-> "error", error |-> why, annotations |-> <<>>]
NoResult == [input_text |-> <<>>, matches |-> <<>>]
NoOutcome == [k |-> "pending", v |-> <<>>, e |-> "none"]
NoExtractResponse == [kind |-> "none", error |-> "", extracted_entities |-> <<>>,
                      original_text |-> <<>>]

(***************************************************************************)
(* server.py: _handle_annotate, and annotate_batch with its tasks          *)
(***************************************************************************)
Tasks == 1..Len(texts)

\* _parse_texts, lines 117-120, for a string or a list of strings
ParseTexts(raw) == IF raw.kind = "str" THEN <<raw.s>> ELSE raw.l

TaskTextOfLastTask(ts, i) == ts[Len(ts)]

\* the text task i annotates (lines 185-194)
TaskText(ts, i) == ts[i]

Init ==
    /\ args \in AnnotateArgs
    /\ settings \in [bioportal_api_key : BOOLEAN] /\ closed = {}
    /\ hpc = "called" /\ response = NoResponse /\ bpc = "idle"
    /\ results = <<>> /\ texts = <<>> /\ pc = <<>> /\ attempt = <<>>
    /\ calls = <<>> /\ got = <<>> /\ served = <<>> /\ collected = <<>> /\ result = <<>>
    /\ exc = <<>> /\ finished = <<>>
    /\ d_in = <<>> /\ d_out = <<>> /\ d_pc = "idle"
    /\ p_original = <<>> /\ p_content = [kind |-> "notjson", items |-> <<>>]
    /\ p_out = [status |-> "pending", entities |-> <<>>] /\ p_pc = "idle"
    /\ x_args = [text |-> <<>>, domains |-> [k |-> "none", v |-> <<>>]] /\ x_key = FALSE
    /\ x_pc = "idle" /\ x_calls = 0 /\ x_entities = <<>> /\ x_response = NoExtractResponse
    /\ r_domain = "None" /\ r_preferred = [k |-> "none", v |-> <<>>]
    /\ r_configured = NoneStr /\ r_out = [k |-> "none", v |-> <<>>] /\ r_pc = "idle"
    /\ c_op = "ols_find_exact" /\ c_query = <<>> /\ c_key = FALSE /\ c_tried = <<>>
    /\ c_sent = 0 /\ c_payload = <<>> /\ c_pc = "idle" /\ c_out = NoOutcome
    /\ c_max_results = 1 /\ c_rows = 0 /\ c_rows_arg = NoRows

\* lines 159-162: texts is neither a string nor a list
RejectTexts ==
    /\ hpc = "called"
    /\ args.texts.kind = "other"
    /\ hpc' = "responded"
    /\ response' = ErrorResponse("texts")
    /\ UNCHANGED <<args, settings, closed, bpc, results, texts, pc, attempt, calls, got, served,
                   collected, result, exc, finished, dedupVars, parseVars,
                   extractVars, resolveVars, clientVars>>

\* line 169, `if domain`: None and "" are falsy
DomainGiven(domain) == domain \notin {"None", ""}

\* lines 169-172: the domain is not one of VALID_DOMAINS
RejectDomain ==
    /\ hpc = "called"
    /\ args.texts.kind # "other"
    /\ DomainGiven(args.domain) /\ args.domain \notin VALID_DOMAINS
    /\ hpc' = "responded"
    /\ response' = ErrorResponse("domain")
    /\ UNCHANGED <<args, settings, closed, bpc, results, texts, pc, attempt, calls, got, served,
                   collected, result, exc, finished, dedupVars, parseVars,
                   extractVars, resolveVars, clientVars>>

\* lines 174-182 and annotate_batch lines 185-195: one task per text, each run
\* up to its first request (find_exact of the primary provider)
StartBatch ==
    /\ hpc = "called"
    /\ args.texts.kind # "other"
    /\ ~DomainGiven(args.domain) \/ args.domain \in VALID_DOMAINS
    /\ hpc' = "awaiting"
    /\ bpc' = "gathering"
    /\ texts' = ParseTexts(args.texts)
    /\ LET n == Len(ParseTexts(args.texts))
       IN  /\ pc' = [i \in 1..n |-> "ols_find_exact"]
           /\ attempt' = [i \in 1..n |-> 1]
           /\ calls' = [i \in 1..n |->
                           [op \in OpSet |-> IF op = "ols_find_exact" THEN 1 ELSE 0]]
           /\ got' = [i \in 1..n |-> [op \in OpSet |-> -1]]
           /\ served' = [i \in 1..n |-> [op \in OpSet |-> <<>>]]
           /\ collected' = [i \in 1..n |-> <<>>]
           /\ result' = [i \in 1..n |-> NoResult]
           /\ exc' = [i \in 1..n |-> "none"]
    /\ UNCHANGED <<args, settings, closed, response, results, finished, dedupVars, parseVars,
                   extractVars, resolveVars, clientVars>>

\* the clients an annotator holds (annotator.py lines 95-98) and close() closes
AnnotatorClients ==
    IF settings.bioportal_api_key THEN {"ols", "bp"} ELSE {"ols"}

\* is the client of op closed: its next request raises RuntimeError at once,
\* which _get turns into OLSError / BioPortalError and search into []
ClientClosed(op, cl) ==
    \/ op \in OlsOps /\ "ols" \in cl
    \/ op \in BpOps /\ "bp" \in cl

RECURSIVE InvokedAfter(_, _)
\* the operations annotate invokes, in order, once op has returned and matches
\* is empty: those of a closed client return [] at once, the first one of an open
\* client sends its request (lines 145-160)
InvokedAfter(op, cl) ==
    LET next == NextOp(op)
    IN  IF next = "none" THEN <<>>
        ELSE IF ClientClosed(next, cl) THEN <<next>> \o InvokedAfter(next, cl)
        ELSE <<next>>

\* annotate has all its matches, or no operation is left: fusion, and the
\* dict is returned (lines 164-174)
AnnotateReturns(i, matches) ==
    /\ pc' = [pc EXCEPT ![i] = "done"]
    /\ result' = [result EXCEPT
                    ![i] = Fuse(TaskText(texts, i), matches, args.min_confidence)]
    /\ finished' = Append(finished, i)

\* annotate goes on after op returned cands: the operations invoked are counted,
\* those of a closed client have returned [], and the last one is awaited when
\* its request was sent
AnnotateGoesOn(i, op, cands, matches, invoked) ==
    LET last == invoked[Len(invoked)]
        failed == {invoked[k] : k \in 1..Len(invoked)} \ 
                  (IF ClientClosed(last, closed) THEN {} ELSE {last})
    IN  /\ got' = [got EXCEPT ![i] = [o \in OpSet |->
                       IF o = op THEN Len(cands) ELSE IF o \in failed THEN 0 ELSE @[o]]]
        /\ calls' = [calls EXCEPT ![i] = [o \in OpSet |->
                       IF o \in failed \cup {last} THEN @[o] + 1 ELSE @[o]]]
        /\ attempt' = [attempt EXCEPT ![i] = 1]
        /\ IF ClientClosed(last, closed)
           THEN AnnotateReturns(i, matches)
           ELSE /\ pc' = [pc EXCEPT ![i] = last]
                /\ UNCHANGED <<result, finished>>

\* the operation of task i returned cands at attempt att: annotate appends them
\* to matches and either goes on to the next operation or runs fusion and
\* returns (lines 140-174)
OpReturnedAt(i, cands, att) ==
    LET op == pc[i]
        matches == collected[i] \o StageMatches(op, cands)
    IN  /\ served' = [served EXCEPT ![i][op] = cands]
        /\ collected' = [collected EXCEPT ![i] = matches]
        /\ IF CascadeStops(matches, NextOp(op))
           THEN /\ got' = [got EXCEPT ![i][op] = Len(cands)]
                /\ attempt' = [attempt EXCEPT ![i] = att]
                /\ AnnotateReturns(i, matches)
                /\ UNCHANGED calls
           ELSE AnnotateGoesOn(i, op, cands, matches, InvokedAfter(op, closed))
        /\ UNCHANGED <<args, settings, closed, hpc, response, bpc, results, texts, exc,
                       dedupVars, parseVars, extractVars, resolveVars, clientVars>>

\* the operation of task i returned cands
OpReturned(i, cands) == OpReturnedAt(i, cands, attempt[i])

\* the operation of task i raised e: annotate does not catch it
OpRaised(i, e) ==
    /\ pc' = [pc EXCEPT ![i] = "raised"]
    /\ exc' = [exc EXCEPT ![i] = e]
    /\ finished' = Append(finished, i)
    /\ UNCHANGED <<args, settings, closed, hpc, response, bpc, results, texts, attempt,
                   calls, got, served, collected, result, dedupVars, parseVars,
                   extractVars, resolveVars, clientVars>>

\* _get: a timeout or connection error before the last attempt is retried; the
\* new attempt sends its request, or fails at once on a closed client
Retry(i) ==
    /\ pc[i] \in OpSet
    /\ attempt[i] < StopAfterAttempt
    /\ IF ClientClosed(pc[i], closed)
       THEN OpReturnedAt(i, <<>>, attempt[i] + 1)
       ELSE /\ attempt' = [attempt EXCEPT ![i] = @ + 1]
            /\ UNCHANGED <<args, settings, closed, hpc, response, bpc, results, texts,
                           pc, calls, got, served, collected, result, exc, finished,
                           dedupVars, parseVars, extractVars, resolveVars, clientVars>>

\* _get: a timeout or connection error on the last attempt is re-raised
\* (reraise=True); search catches OLSError / BioPortalError only
RetriesExhausted(i) ==
    /\ pc[i] \in OpSet
    /\ attempt[i] = StopAfterAttempt
    /\ \E e \in {"TimeoutException", "ConnectError"} : OpRaised(i, e)

\* _get: a bad HTTP status or a body that is no JSON becomes OLSError /
\* BioPortalError, which search turns into an empty list
ProtocolFailure(i) ==
    /\ pc[i] \in OpSet
    /\ OpReturned(i, <<>>)

\* the body is JSON but no object: OLSClient.search calls data.get (line 88),
\* BioPortalClient.search returns [] (lines 152-153)
PayloadNotDict(i) ==
    /\ pc[i] \in OpSet
    /\ IF pc[i] \in OlsOps THEN OpRaised(i, "AttributeError") ELSE OpReturned(i, <<>>)

\* the primary service answers with docs: the operation returns its candidates,
\* or _parse_term raises and neither the operation nor annotate catches it
OlsResponds(i) ==
    /\ pc[i] \in OlsOps
    /\ \E docs \in OlsPayloads :
          IF ParseRaises(pc[i], TaskText(texts, i), docs)
          THEN OpRaised(i, "AttributeError")
          ELSE OpReturned(i, Candidates(pc[i], TaskText(texts, i), docs))

\* the fallback service answers with a collection
BpResponds(i) ==
    /\ pc[i] \in BpOps
    /\ \E items \in BpPayloads :
          OpReturned(i, Candidates(pc[i], TaskText(texts, i), items))

GatherInCompletionOrder(rs, order) == [k \in 1..Len(order) |-> rs[order[k]]]

\* what asyncio.gather hands back: the tasks' results by task index, whatever
\* the order in which the tasks completed
GatherResults(rs, order) == rs

\* annotate_batch line 195 and _handle_annotate line 187: every task returned
GatherReturns ==
    /\ bpc = "gathering"
    /\ \A i \in Tasks : pc[i] = "done"
    /\ bpc' = "returned"
    /\ results' = GatherResults(result, finished)
    /\ hpc' = "responded"
    /\ response' = [kind |-> "annotations", error |-> "",
                    annotations |-> GatherResults(result, finished)]
    /\ closed' = AnnotatorClients
    /\ UNCHANGED <<args, settings, texts, pc, attempt, calls, got, served, collected,
                   result, exc, finished, dedupVars, parseVars,
                   extractVars, resolveVars, clientVars>>

\* a task raised: gather raises into annotate_batch, which leaves the
\* `async with` block of line 175; close() closes the primary client and awaits
\* the end of its transport (annotator.py line 101), the other tasks run on
GatherRaises ==
    /\ bpc = "gathering"
    /\ \E i \in Tasks : pc[i] = "raised"
    /\ bpc' = "raised"
    /\ closed' = {"ols"}
    /\ UNCHANGED <<args, settings, hpc, response, results, texts, pc, attempt, calls,
                   got, served, collected, result, exc, finished, dedupVars, parseVars,
                   extractVars, resolveVars, clientVars>>

\* close() goes on to the fallback client, when the annotator holds one, and
\* awaits the end of its transport (annotator.py lines 102-103)
CloseFallbackClient ==
    /\ bpc = "raised" /\ hpc = "awaiting"
    /\ closed # AnnotatorClients
    /\ closed' = AnnotatorClients
    /\ UNCHANGED <<args, settings, hpc, response, bpc, results, texts, pc, attempt,
                   calls, got, served, collected, result, exc, finished, dedupVars,
                   parseVars, extractVars, resolveVars, clientVars>>

\* the annotator is closed: _handle_annotate answers with an error
\* (lines 183-185)
AnswerAnnotationFailed ==
    /\ bpc = "raised" /\ hpc = "awaiting"
    /\ closed = AnnotatorClients
    /\ hpc' = "responded"
    /\ response' = ErrorResponse("annotation_failed")
    /\ UNCHANGED <<args, settings, closed, bpc, results, texts, pc, attempt, calls, got,
                   served, collected, result, exc, finished, dedupVars, parseVars,
                   extractVars, resolveVars, clientVars>>

Next ==
    \/ RejectTexts
    \/ RejectDomain
    \/ StartBatch
    \/ \E i \in Tasks : Retry(i)
    \/ \E i \in Tasks : RetriesExhausted(i)
    \/ \E i \in Tasks : ProtocolFailure(i)
    \/ \E i \in Tasks : PayloadNotDict(i)
    \/ \E i \in Tasks : OlsResponds(i)
    \/ \E i \in Tasks : BpResponds(i)
    \/ GatherReturns
    \/ GatherRaises
    \/ CloseFallbackClient
    \/ AnswerAnnotationFailed

Spec == Init /\ [][Next]_vars

(***************************************************************************)
(* Properties of annotate, annotate_batch and _handle_annotate (Spec).     *)
(***************************************************************************)
Range(f) == {f[k] : k \in DOMAIN f}

\* C1: within one annotate call, once an operation of the cascade has returned at
\* least one candidate, no later operation is invoked: with find_exact of the
\* primary provider returning >= 1 candidate, find_by_synonym, fuzzy_search and
\* both fallback operations are called zero times.
C1_CascadeShortCircuits ==
    \A i \in Tasks : \A a \in 1..Len(Ops) : \A b \in 1..Len(Ops) :
        (a < b /\ got[i][Ops[a]] >= 1) => calls[i][Ops[b]] = 0

C1_Witness ==
    \E i \in Tasks :
        /\ pc[i] = "done"
        /\ got[i]["ols_find_exact"] >= 1
        /\ calls[i]["ols_find_exact"] = 1
        /\ result[i].matches # <<>>

\* C2: every match annotate returns has the confidence of its match_type: 0.98 for
\* exact_label, 0.85 for synonym, 0.75 for ols_search, 0.70 for bioportal (whether
\* the fallback's exact match or its fuzzy search produced it), and no other value.
C2_ConfidenceFixedByMatchType ==
    \A i \in Tasks : \A m \in Range(result[i].matches) :
        \/ m.match_type = "exact_label" /\ m.confidence = 98
        \/ m.match_type = "synonym" /\ m.confidence = 85
        \/ m.match_type = "ols_search" /\ m.confidence = 75
        \/ m.match_type = "bioportal" /\ m.confidence = 70

C2_Witness ==
    \E i \in Tasks :
        /\ pc[i] = "done"
        /\ got[i]["bp_find_exact"] >= 1
        /\ result[i].matches # <<>>
        /\ result[i].matches[1].match_type = "bioportal"

\* C3: the matches annotate returns are exactly the deduplicated matches whose
\* confidence is >= min_confidence: none below it is returned, and one whose
\* confidence equals it is kept.
C3_FilterLaw ==
    \A i \in Tasks : pc[i] = "done" =>
        LET returned == result[i].matches
            deduped == Deduplicate(collected[i])
            wanted == {m \in Range(deduped) : m.confidence >= args.min_confidence}
        IN  /\ \A m \in Range(returned) : m.confidence >= args.min_confidence
            /\ Range(returned) = wanted
            /\ Len(returned) = Cardinality(wanted)

C3_Witness ==
    \E i \in Tasks :
        /\ pc[i] = "done"
        /\ args.min_confidence = 70
        /\ Len(collected[i]) = 2
        /\ Len(result[i].matches) = 1
        /\ result[i].matches[1].confidence = 70

\* C5: annotate_batch on n texts returns n results in input order, result k having
\* input_text = texts[k], also for repeated texts and whatever the order in which
\* the per-text evaluations finished.
C5_BatchCorrespondence ==
    bpc = "returned" =>
        /\ Len(results) = Len(texts)
        /\ \A k \in 1..Len(texts) : results[k].input_text = texts[k]

C5_Witness ==
    /\ bpc = "returned"
    /\ Len(texts) = 2
    /\ texts[1] # texts[2]
    /\ finished = <<2, 1>>
    /\ results[1].input_text = texts[1]

\* C6: a lookup operation (find_exact, find_by_synonym, fuzzy_search of either
\* provider) never propagates a failure: with retries exhausted on timeouts or
\* connection errors, or on a non-retryable failure, it returns an empty list
\* instead of raising.
C6_LookupNeverRaises ==
    \A i \in Tasks : pc[i] # "raised" /\ exc[i] = "none"

\* C7: a transient provider failure (timeout, connection error) never aborts the
\* request: annotate_batch returns and the handler answers with annotations, not
\* with an error response.
C7_TransientFailureNeverAborts ==
    (\A i \in Tasks : exc[i] \in {"none", "TimeoutException", "ConnectError"})
        => (bpc # "raised" /\ response.error # "annotation_failed")

\* C13: in an annotate call the fallback provider is queried if and only if all
\* three primary stages returned zero matches, use_bioportal_fallback is true and
\* the fallback credential is configured; its exact match is tried first and its
\* fuzzy search is called only if that exact match returned nothing. With the flag
\* false or the credential unset no fallback operation is ever invoked.
C13_FallbackIffPrimaryEmptyAndEnabled ==
    \A i \in Tasks :
        LET primaryEmpty == \A op \in OlsOps : got[i][op] = 0
            enabled == args.use_bioportal_fallback /\ settings.bioportal_api_key
        IN  /\ calls[i]["bp_find_exact"] \in {0, 1}
            /\ calls[i]["bp_fuzzy_search"] \in {0, 1}
            /\ calls[i]["bp_find_exact"] = 1 <=> (primaryEmpty /\ enabled)
            /\ calls[i]["bp_fuzzy_search"] = 1
                  <=> (calls[i]["bp_find_exact"] = 1 /\ got[i]["bp_find_exact"] = 0)
            /\ ~enabled => (calls[i]["bp_find_exact"] = 0 /\ calls[i]["bp_fuzzy_search"] = 0)

C13_Witness ==
    \E i \in Tasks :
        /\ pc[i] = "done"
        /\ \A op \in OlsOps : got[i][op] = 0
        /\ calls[i]["bp_find_exact"] = 1
        /\ got[i]["bp_find_exact"] = 0
        /\ calls[i]["bp_fuzzy_search"] = 1
        /\ got[i]["bp_fuzzy_search"] >= 1

\* C17: every result annotate returns pairs input_text = the query with matches
\* in order of non-increasing confidence, no two of which have the same
\* (ontology, term_id), or the same (ontology, label) when the term_id is absent.
C17_ResultOrderedWithoutDuplicates ==
    \A i \in Tasks : pc[i] = "done" =>
        LET ms == result[i].matches
        IN  /\ result[i].input_text = texts[i]
            /\ \A a \in 1..Len(ms) : \A b \in 1..Len(ms) :
                  a < b =>
                    /\ ms[a].confidence >= ms[b].confidence
                    /\ ~(/\ ms[a].ontology = ms[b].ontology
                         /\ ms[a].term_id = ms[b].term_id
                         /\ ms[a].term_id = <<>> => ms[a].label = ms[b].label)

C17_Witness ==
    \E i \in Tasks :
        /\ pc[i] = "done"
        /\ Len(collected[i]) = 2
        /\ collected[i][1].term_id = collected[i][2].term_id
        /\ collected[i][1].label # collected[i][2].label
        /\ Len(result[i].matches) = 1
        /\ result[i].matches[1].match_type = "exact_label"

RECURSIVE AloneFrom(_, _, _)
\* the matches of a cascade run on its own against the responses resp, from the
\* k-th operation on: those of the first operation that returned any, the
\* fallback's operations being asked only when the fallback is enabled
AloneFrom(resp, enabled, k) ==
    IF k > Len(Ops) \/ (Ops[k] \in BpOps /\ ~enabled) THEN <<>>
    ELSE IF resp[Ops[k]] # <<>>
         THEN [j \in 1..Len(resp[Ops[k]]) |->
                  RawToMatch(resp[Ops[k]][j], MatchTypeOf(Ops[k]), ConfidenceOf(Ops[k]))]
         ELSE AloneFrom(resp, enabled, k + 1)

\* C20: under every interleaving of the per-term evaluations of a batch, each
\* term's result is the result annotate returns for that term alone against the
\* same provider responses; within one term an operation is invoked only after
\* the one before it has returned.
C20_ResultIndependentOfInterleaving ==
    \A i \in Tasks :
        /\ pc[i] = "done" =>
              result[i] = Fuse(texts[i],
                               AloneFrom(served[i],
                                         args.use_bioportal_fallback
                                            /\ settings.bioportal_api_key, 1),
                               args.min_confidence)
        /\ \A a \in 1..Len(Ops) : \A b \in 1..Len(Ops) :
              (a < b /\ calls[i][Ops[b]] > 0) => got[i][Ops[a]] >= 0

C20_Witness ==
    /\ Len(texts) = 2
    /\ texts[1] # texts[2]
    /\ finished = <<2, 1>>
    /\ pc[1] = "done" /\ pc[2] = "done"
    /\ calls[1]["ols_find_by_synonym"] = 1
    /\ calls[2]["ols_find_by_synonym"] = 0
    /\ result[1].matches # <<>> /\ result[2].matches # <<>>

\* C24: at every point of an annotate call the accumulated matches come from one
\* single stage: they are the candidates of one operation, they all share one
\* match_type and one confidence, and so do the matches of the result; every
\* first occurrence deduplication keeps has the highest confidence of the list.
C24_MatchesFromOneStage ==
    \A i \in Tasks :
        /\ \A m \in Range(collected[i]) : \A n \in Range(collected[i]) :
               m.match_type = n.match_type /\ m.confidence = n.confidence
        /\ collected[i] # <<>> =>
               \E op \in OpSet :
                   /\ collected[i] = StageMatches(op, served[i][op])
                   /\ \A other \in OpSet \ {op} : served[i][other] = <<>>
        /\ \A m \in Range(result[i].matches) : \A n \in Range(result[i].matches) :
               m.match_type = n.match_type /\ m.confidence = n.confidence
        /\ \A m \in Range(Deduplicate(collected[i])) : \A n \in Range(collected[i]) :
               m.confidence >= n.confidence

C24_Witness ==
    \E i \in Tasks :
        /\ pc[i] = "done"
        /\ calls[i]["ols_fuzzy_search"] = 1
        /\ Len(collected[i]) = 2
        /\ collected[i][1].ontology # collected[i][2].ontology
        /\ Len(result[i].matches) = 2

(***************************************************************************)
(* The pure functions, each applied to arbitrary inputs under its own      *)
(* specification.                                                          *)
(***************************************************************************)
InitDedup ==
    /\ d_in \in DedupInputs
    /\ d_out = <<>>
    /\ d_pc = "call"
    /\ args = [texts |-> [kind |-> "other", s |-> <<>>, l |-> <<>>], domain |-> "None",
               use_bioportal_fallback |-> FALSE, min_confidence |-> 70]
    /\ settings = [bioportal_api_key |-> FALSE] /\ closed = {}
    /\ hpc = "idle" /\ response = NoResponse /\ bpc = "idle"
    /\ results = <<>> /\ texts = <<>> /\ pc = <<>> /\ attempt = <<>>
    /\ calls = <<>> /\ got = <<>> /\ served = <<>> /\ collected = <<>> /\ result = <<>>
    /\ exc = <<>> /\ finished = <<>>
    /\ p_original = <<>> /\ p_content = [kind |-> "notjson", items |-> <<>>]
    /\ p_out = [status |-> "pending", entities |-> <<>>] /\ p_pc = "idle"
    /\ x_args = [text |-> <<>>, domains |-> [k |-> "none", v |-> <<>>]] /\ x_key = FALSE
    /\ x_pc = "idle" /\ x_calls = 0 /\ x_entities = <<>> /\ x_response = NoExtractResponse
    /\ r_domain = "None" /\ r_preferred = [k |-> "none", v |-> <<>>]
    /\ r_configured = NoneStr /\ r_out = [k |-> "none", v |-> <<>>] /\ r_pc = "idle"
    /\ c_op = "ols_find_exact" /\ c_query = <<>> /\ c_key = FALSE /\ c_tried = <<>>
    /\ c_sent = 0 /\ c_payload = <<>> /\ c_pc = "idle" /\ c_out = NoOutcome
    /\ c_max_results = 1 /\ c_rows = 0 /\ c_rows_arg = NoRows

DedupCall ==
    /\ d_pc = "call"
    /\ d_out' = Deduplicate(d_in)
    /\ d_pc' = "done"
    /\ UNCHANGED <<d_in, annVars, parseVars, extractVars, resolveVars, clientVars>>

SpecDedup == InitDedup /\ [][DedupCall]_vars

InitParse ==
    /\ p_original \in Originals
    /\ p_content \in Contents
    /\ p_out = [status |-> "pending", entities |-> <<>>]
    /\ p_pc = "call"
    /\ args = [texts |-> [kind |-> "other", s |-> <<>>, l |-> <<>>], domain |-> "None",
               use_bioportal_fallback |-> FALSE, min_confidence |-> 70]
    /\ settings = [bioportal_api_key |-> FALSE] /\ closed = {}
    /\ hpc = "idle" /\ response = NoResponse /\ bpc = "idle"
    /\ results = <<>> /\ texts = <<>> /\ pc = <<>> /\ attempt = <<>>
    /\ calls = <<>> /\ got = <<>> /\ served = <<>> /\ collected = <<>> /\ result = <<>>
    /\ exc = <<>> /\ finished = <<>>
    /\ d_in = <<>> /\ d_out = <<>> /\ d_pc = "idle"
    /\ x_args = [text |-> <<>>, domains |-> [k |-> "none", v |-> <<>>]] /\ x_key = FALSE
    /\ x_pc = "idle" /\ x_calls = 0 /\ x_entities = <<>> /\ x_response = NoExtractResponse
    /\ r_domain = "None" /\ r_preferred = [k |-> "none", v |-> <<>>]
    /\ r_configured = NoneStr /\ r_out = [k |-> "none", v |-> <<>>] /\ r_pc = "idle"
    /\ c_op = "ols_find_exact" /\ c_query = <<>> /\ c_key = FALSE /\ c_tried = <<>>
    /\ c_sent = 0 /\ c_payload = <<>> /\ c_pc = "idle" /\ c_out = NoOutcome
    /\ c_max_results = 1 /\ c_rows = 0 /\ c_rows_arg = NoRows

ParseCall ==
    /\ p_pc = "call"
    /\ p_out' = ParseResponse(p_content, p_original)
    /\ p_pc' = "done"
    /\ UNCHANGED <<p_original, p_content, annVars, dedupVars, extractVars, resolveVars,
                   clientVars>>

SpecParse == InitParse /\ [][ParseCall]_vars

(***************************************************************************)
(* server.py: _handle_extract, with EntityExtractor.__init__ and extract.  *)
(* The entities are annotated one after the other by the cascade above:    *)
(* task k is the annotate call for entity k, and it starts when task k-1   *)
(* has returned.                                                           *)
(***************************************************************************)
\* the text argument: empty, or a text
ExtractTexts == { <<>>, <<"b", "a", "b">> }

\* the domains argument: absent, or a list of domain names
ExtractDomains ==
    { [k |-> "none", v |-> <<>>], [k |-> "list", v |-> <<>>],
      [k |-> "list", v |-> <<"disease">>], [k |-> "list", v |-> <<"food">>] }

\* what the extraction model may answer with
ExtractElements ==
    { Element(JStr(<<"b">>), DStr("disease"), CNum(90), JInt(0), JInt(1)),
      Element(JStr(<<"a", "b">>), DStr("chemical"), CNum(90), JNull, JNull),
      Element(JStr(<<"b">>), DStr("food"), CNum(90), JInt(0), JInt(1)),
      Element(JStr(<<"b">>), DStr("disease"), CWord, JInt(0), JInt(1)) }

ExtractContents ==
    {[kind |-> "notjson", items |-> <<>>]}
    \cup {[kind |-> "list", items |-> its] : its \in SeqsUpTo(ExtractElements, MaxEntities)}

\* extract line 57: domains or list(VALID_DOMAINS), as a set
EffectiveDomains(domains) ==
    IF domains.k = "none" \/ domains.v = <<>> THEN VALID_DOMAINS
    ELSE {domains.v[k] : k \in 1..Len(domains.v)}

\* extract line 59
InvalidDomains(domains) == {d \in EffectiveDomains(domains) : d \notin VALID_DOMAINS}

ExtractError(why, text) ==
    [kind |-> "error", error |-> why, extracted_entities |-> <<>>, original_text |-> <<>>]

\* lines 233-242: an entity with the matches of its annotation
AnnotatedEntity(entity, annotation) ==
    [text |-> entity.text, start_pos |-> entity.start_pos, end_pos |-> entity.end_pos,
     domain |-> entity.domain, extraction_confidence |-> entity.extraction_confidence,
     matches |-> annotation.matches]

InitExtract ==
    /\ x_args \in [text : ExtractTexts, domains : ExtractDomains]
    /\ x_key \in BOOLEAN
    /\ x_pc = "called" /\ x_calls = 0 /\ x_entities = <<>> /\ x_response = NoExtractResponse
    /\ args \in [texts : {[kind |-> "other", s |-> <<>>, l |-> <<>>]}, domain : {"None"},
                 use_bioportal_fallback : BOOLEAN, min_confidence : {70}]
    /\ settings \in [bioportal_api_key : BOOLEAN] /\ closed = {}
    /\ hpc = "idle" /\ response = NoResponse /\ bpc = "idle"
    /\ results = <<>> /\ texts = <<>> /\ pc = <<>> /\ attempt = <<>>
    /\ calls = <<>> /\ got = <<>> /\ served = <<>> /\ collected = <<>> /\ result = <<>>
    /\ exc = <<>> /\ finished = <<>>
    /\ d_in = <<>> /\ d_out = <<>> /\ d_pc = "idle"
    /\ p_original = <<>> /\ p_content = [kind |-> "notjson", items |-> <<>>]
    /\ p_out = [status |-> "pending", entities |-> <<>>] /\ p_pc = "idle"
    /\ r_domain = "None" /\ r_preferred = [k |-> "none", v |-> <<>>]
    /\ r_configured = NoneStr /\ r_out = [k |-> "none", v |-> <<>>] /\ r_pc = "idle"
    /\ c_op = "ols_find_exact" /\ c_query = <<>> /\ c_key = FALSE /\ c_tried = <<>>
    /\ c_sent = 0 /\ c_payload = <<>> /\ c_pc = "idle" /\ c_out = NoOutcome
    /\ c_max_results = 1 /\ c_rows = 0 /\ c_rows_arg = NoRows

\* lines 193-195: text is missing or empty
ExtractRejectText ==
    /\ x_pc = "called"
    /\ x_args.text = <<>>
    /\ x_pc' = "responded"
    /\ x_response' = ExtractError("text", x_args.text)
    /\ UNCHANGED <<x_args, x_key, x_calls, x_entities, annVars, dedupVars, parseVars,
                   resolveVars, clientVars>>

\* lines 203-206 and EntityExtractor.__init__: no anthropic_api_key
ExtractorKeyMissing ==
    /\ x_pc = "called"
    /\ x_args.text # <<>>
    /\ ~x_key
    /\ x_pc' = "responded"
    /\ x_response' = ExtractError("api_key", x_args.text)
    /\ UNCHANGED <<x_args, x_key, x_calls, x_entities, annVars, dedupVars, parseVars,
                   resolveVars, clientVars>>

\* extract lines 57-61 and handler lines 210-212: a domain outside VALID_DOMAINS
ExtractRejectDomains ==
    /\ x_pc = "called"
    /\ x_args.text # <<>>
    /\ x_key
    /\ InvalidDomains(x_args.domains) # {}
    /\ x_pc' = "responded"
    /\ x_response' = ExtractError("invalid_domains", x_args.text)
    /\ UNCHANGED <<x_args, x_key, x_calls, x_entities, annVars, dedupVars, parseVars,
                   resolveVars, clientVars>>

\* extract lines 63-73: the request to the extraction model is sent
ExtractRequest ==
    /\ x_pc = "called"
    /\ x_args.text # <<>>
    /\ x_key
    /\ InvalidDomains(x_args.domains) = {}
    /\ x_pc' = "extracting"
    /\ x_calls' = x_calls + 1
    /\ UNCHANGED <<x_args, x_key, x_entities, x_response, annVars, dedupVars, parseVars,
                   resolveVars, clientVars>>

\* extract lines 74-75 and handler lines 210-212: the API call failed
ExtractApiError ==
    /\ x_pc = "extracting"
    /\ x_pc' = "responded"
    /\ x_response' = ExtractError("api_error", x_args.text)
    /\ UNCHANGED <<x_args, x_key, x_calls, x_entities, annVars, dedupVars, parseVars,
                   resolveVars, clientVars>>

\* extract lines 77-78 and handler lines 214-232: the model answered; the
\* content is parsed, and either the parse raises, or there is no entity, or the
\* annotate call for the first entity runs up to its first request
ExtractParsed ==
    /\ x_pc = "extracting"
    /\ \E content \in ExtractContents :
         LET out == ParseResponse(content, x_args.text)
             n == Len(out.entities)
         IN  CASE out.status = "raise" ->
                    /\ x_pc' = "raised"
                    /\ UNCHANGED <<x_entities, x_response, texts, pc, attempt, calls, got,
                                   served, collected, result, exc>>
               [] out.status # "raise" /\ n = 0 ->
                    /\ x_pc' = "responded"
                    /\ x_response' = [kind |-> "entities", error |-> "",
                                      extracted_entities |-> <<>>,
                                      original_text |-> x_args.text]
                    /\ UNCHANGED <<x_entities, texts, pc, attempt, calls, got, served,
                                   collected, result, exc>>
               [] OTHER ->
                    /\ x_pc' = "annotating"
                    /\ x_entities' = out.entities
                    /\ texts' = [k \in 1..n |-> out.entities[k].text]
                    /\ pc' = [k \in 1..n |-> IF k = 1 THEN "ols_find_exact" ELSE "waiting"]
                    /\ attempt' = [k \in 1..n |-> 1]
                    /\ calls' = [k \in 1..n |->
                                    [op \in OpSet |->
                                        IF k = 1 /\ op = "ols_find_exact" THEN 1 ELSE 0]]
                    /\ got' = [k \in 1..n |-> [op \in OpSet |-> -1]]
                    /\ served' = [k \in 1..n |-> [op \in OpSet |-> <<>>]]
                    /\ collected' = [k \in 1..n |-> <<>>]
                    /\ result' = [k \in 1..n |-> NoResult]
                    /\ exc' = [k \in 1..n |-> "none"]
                    /\ UNCHANGED x_response
    /\ UNCHANGED <<x_args, x_key, x_calls, args, settings, closed, hpc, response, bpc, results,
                   finished, dedupVars, parseVars, resolveVars, clientVars>>

\* lines 221-232: the loop goes on to the annotate call for the next entity
AnnotateNextEntity ==
    /\ x_pc = "annotating"
    /\ \E k \in Tasks :
         /\ pc[k] = "done"
         /\ k + 1 \in Tasks
         /\ pc[k + 1] = "waiting"
         /\ pc' = [pc EXCEPT ![k + 1] = "ols_find_exact"]
         /\ calls' = [calls EXCEPT ![k + 1]["ols_find_exact"] = @ + 1]
    /\ UNCHANGED <<args, settings, closed, hpc, response, bpc, results, texts, attempt, got,
                   served, collected, result, exc, finished, extractVars, dedupVars,
                   parseVars, resolveVars, clientVars>>

\* line 247: every entity is annotated
ExtractReturns ==
    /\ x_pc = "annotating"
    /\ \A i \in Tasks : pc[i] = "done"
    /\ x_pc' = "responded"
    /\ x_response' = [kind |-> "entities", error |-> "",
                      extracted_entities |->
                          [k \in 1..Len(x_entities) |->
                              AnnotatedEntity(x_entities[k], result[k])],
                      original_text |-> x_args.text]
    /\ closed' = AnnotatorClients
    /\ UNCHANGED <<x_args, x_key, x_calls, x_entities, args, settings, hpc, response,
                   bpc, results, texts, pc, attempt, calls, got, served, collected,
                   result, exc, finished, dedupVars, parseVars, resolveVars,
                   clientVars>>

\* lines 243-245: an annotate call raised
ExtractAnnotateRaises ==
    /\ x_pc = "annotating"
    /\ \E i \in Tasks : pc[i] = "raised"
    /\ x_pc' = "responded"
    /\ x_response' = ExtractError("annotation_failed", x_args.text)
    /\ closed' = AnnotatorClients
    /\ UNCHANGED <<x_args, x_key, x_calls, x_entities, args, settings, hpc, response,
                   bpc, results, texts, pc, attempt, calls, got, served, collected,
                   result, exc, finished, dedupVars, parseVars, resolveVars,
                   clientVars>>

NextExtract ==
    \/ ExtractRejectText
    \/ ExtractorKeyMissing
    \/ ExtractRejectDomains
    \/ ExtractRequest
    \/ ExtractApiError
    \/ ExtractParsed
    \/ AnnotateNextEntity
    \/ \E i \in Tasks : Retry(i)
    \/ \E i \in Tasks : RetriesExhausted(i)
    \/ \E i \in Tasks : ProtocolFailure(i)
    \/ \E i \in Tasks : PayloadNotDict(i)
    \/ \E i \in Tasks : OlsResponds(i)
    \/ \E i \in Tasks : BpResponds(i)
    \/ ExtractReturns
    \/ ExtractAnnotateRaises

SpecExtract == InitExtract /\ [][NextExtract]_vars

(***************************************************************************)
(* server.py: call_tool, which hands a call to one of the two handlers.    *)
(***************************************************************************)
SpecServer == (Init \/ InitExtract) /\ [][Next \/ NextExtract]_vars

\* C16: an input validation failure at the caller boundary (a domain explicitly
\* passed, i.e. any value but None, that is not in the fixed domain set, or a
\* texts argument that is neither a string nor a list) is rejected with an error
\* response before any provider call or extraction call is attempted.
C16_InvalidInputRejectedBeforeAnyCall ==
    /\ (/\ hpc # "idle"
        /\ \/ args.texts.kind \notin {"str", "list"}
           \/ args.domain # "None" /\ args.domain \notin VALID_DOMAINS)
          => /\ hpc \in {"called", "responded"}
             /\ calls = <<>> /\ pc = <<>> /\ attempt = <<>>
             /\ hpc = "responded" => response.kind = "error"
                                        /\ response.error \in {"texts", "domain"}
    /\ (/\ x_pc # "idle"
        /\ x_args.domains.k = "list"
        /\ \E j \in 1..Len(x_args.domains.v) : x_args.domains.v[j] \notin VALID_DOMAINS)
          => /\ x_pc \in {"called", "responded"}
             /\ x_calls = 0
             /\ calls = <<>> /\ pc = <<>> /\ attempt = <<>>
             /\ x_pc = "responded" => x_response.kind = "error"

(***************************************************************************)
(* Properties of _handle_extract and EntityExtractor (SpecExtract).        *)
(***************************************************************************)
\* C11: extract(text, domains) never returns an entity whose domain is outside the
\* domains the caller supplied (all of VALID_DOMAINS when the caller supplied
\* none), whatever the extraction model's response contains.
C11_EntitiesWithinRequestedDomains ==
    \A k \in 1..Len(x_entities) :
        x_entities[k].domain \in EffectiveDomains(x_args.domains)

\* the cascade of task i is under way: one of its operations is awaited
Running(i) == pc[i] \in OpSet

\* at most one entity's cascade is under way at a time
OneCascadeAtATime ==
    \A i \in Tasks : \A j \in Tasks : (Running(i) /\ Running(j)) => i = j

\* C21: the entities of a free text are annotated concurrently: no entity's
\* cascade waits for another entity's cascade to complete, so that while the
\* annotation step is under way every entity's first provider call has been
\* issued and the calls of several entities can be in flight together.
C21_EntitiesAnnotatedConcurrently ==
    x_pc = "annotating" =>
        \A j \in Tasks : pc[j] # "waiting" /\ calls[j]["ols_find_exact"] >= 1

(***************************************************************************)
(* annotator.py: OntologyAnnotator._resolve_ontologies, with               *)
(* config.py: Settings.ontologies_for_domain.                              *)
(*                                                                         *)
(* The settings are a function from the six domains to the strings         *)
(* default_<domain>_ontologies; a resolved list is [k |-> "list", v |-> l],*)
(* None is [k |-> "none", v |-> <<>>].                                     *)
(***************************************************************************)
\* config.py lines 9-16
DOMAIN_ONTOLOGY_DEFAULTS(domain) ==
    CASE domain = "disease" ->
            << <<"m", "o", "n", "d", "o">>,
               <<"d", "o", "i", "d">>,
               <<"h", "p">> >>
      [] domain = "chemical" ->
            << <<"c", "h", "e", "b", "i">>,
               <<"d", "r", "u", "g", "b", "a", "n", "k">> >>
      [] domain = "gene" ->
            << <<"h", "g", "n", "c">>,
               <<"n", "c", "b", "i", "g", "e", "n", "e">> >>
      [] domain = "phenotype" ->
            << <<"h", "p">>,
               <<"m", "p">> >>
      [] domain = "anatomy" ->
            << <<"u", "b", "e", "r", "o", "n">>,
               <<"f", "m", "a">> >>
      [] domain = "organism" ->
            << <<"n", "c", "b", "i", "t", "a", "x", "o", "n">> >>
      [] OTHER -> <<>>

\* config.py lines 44-49: the strings the settings hold unless the environment
\* sets them
DefaultSettings(domain) ==
    CASE domain = "disease" ->
            <<"m", "o", "n", "d", "o", ",", "d", "o", "i", "d", ",", "h", "p">>
      [] domain = "chemical" ->
            <<"c", "h", "e", "b", "i", ",", "d", "r", "u", "g", "b", "a", "n", "k">>
      [] domain = "gene" ->
            <<"h", "g", "n", "c", ",", "n", "c", "b", "i", "g", "e", "n", "e">>
      [] domain = "phenotype" ->
            <<"h", "p", ",", "m", "p">>
      [] domain = "anatomy" ->
            <<"u", "b", "e", "r", "o", "n", ",", "f", "m", "a">>
      [] domain = "organism" ->
            <<"n", "c", "b", "i", "t", "a", "x", "o", "n">>
      [] OTHER -> NoneStr

RECURSIVE Split(_, _)
\* str.split(c)
Split(str, c) ==
    LET at == {k \in 1..Len(str) : str[k] = c}
    IN  IF at = {} THEN <<str>>
        ELSE LET first == CHOOSE k \in at : \A j \in at : k <= j
             IN  <<SubSeq(str, 1, first - 1)>> \o Split(SubSeq(str, first + 1, Len(str)), c)

RECURSIVE Strip(_)
\* str.strip(), of blanks
Strip(str) ==
    IF str # <<>> /\ Head(str) = " " THEN Strip(Tail(str))
    ELSE IF str # <<>> /\ str[Len(str)] = " " THEN Strip(SubSeq(str, 1, Len(str) - 1))
    ELSE str

\* ontologies_for_domain, for the settings configured
OntologiesForDomain(configured, domain) ==
    LET raw == IF domain \in DOMAIN configured THEN configured[domain] ELSE NoneStr
        parts == Split(raw, ",")
        kept == SelectSeq(parts, LAMBDA o : Strip(o) # <<>>)
    IN  IF raw # NoneStr /\ raw # <<>>
        THEN [k \in 1..Len(kept) |-> Lower(Strip(kept[k]))]
        ELSE DOMAIN_ONTOLOGY_DEFAULTS(domain)

ResolveDomainFirst(configured, domain, preferred) ==
    IF domain # "None" /\ domain # "" /\ domain \in VALID_DOMAINS
    THEN [k |-> "list", v |-> OntologiesForDomain(configured, domain)]
    ELSE IF preferred.k = "list" /\ preferred.v # <<>>
    THEN [k |-> "list", v |-> [j \in 1..Len(preferred.v) |-> Lower(preferred.v[j])]]
    ELSE [k |-> "none", v |-> <<>>]

\* _resolve_ontologies
ResolveOntologies(configured, domain, preferred) ==
    IF preferred.k = "list" /\ preferred.v # <<>>
    THEN [k |-> "list", v |-> [j \in 1..Len(preferred.v) |-> Lower(preferred.v[j])]]
    ELSE IF domain # "None" /\ domain # "" /\ domain \in VALID_DOMAINS
    THEN [k |-> "list", v |-> OntologiesForDomain(configured, domain)]
    ELSE [k |-> "none", v |-> <<>>]

\* ---- _resolve_ontologies applied to arbitrary arguments and settings ----
ResolveDomains == VALID_DOMAINS \cup {"None", "", "food", "Disease"}

ResolvePreferred ==
    { [k |-> "none", v |-> <<>>], [k |-> "list", v |-> <<>>],
      [k |-> "list", v |-> << <<"M", "O">> >>],
      [k |-> "list", v |-> << <<"a", "b">>, <<"M", "o">>, <<"A", "B">> >>] }

\* the settings as shipped, and with default_disease_ontologies set by the
\* environment to "MO, ab,,B ", to "" and to " , "
ResolveSettings ==
    { [d \in VALID_DOMAINS |-> DefaultSettings(d)],
      [d \in VALID_DOMAINS |->
          IF d = "disease" THEN <<"M", "O", ",", " ", "a", "b", ",", ",", "B", " ">>
          ELSE DefaultSettings(d)],
      [d \in VALID_DOMAINS |-> IF d = "disease" THEN <<>> ELSE DefaultSettings(d)],
      [d \in VALID_DOMAINS |-> IF d = "disease" THEN <<" ", ",", " ">> ELSE DefaultSettings(d)] }

InitResolve ==
    /\ r_domain \in ResolveDomains
    /\ r_preferred \in ResolvePreferred
    /\ r_configured \in ResolveSettings
    /\ r_out = [k |-> "none", v |-> <<>>]
    /\ r_pc = "call"
    /\ args = [texts |-> [kind |-> "other", s |-> <<>>, l |-> <<>>], domain |-> "None",
               use_bioportal_fallback |-> FALSE, min_confidence |-> 70]
    /\ settings = [bioportal_api_key |-> FALSE] /\ closed = {}
    /\ hpc = "idle" /\ response = NoResponse /\ bpc = "idle"
    /\ results = <<>> /\ texts = <<>> /\ pc = <<>> /\ attempt = <<>>
    /\ calls = <<>> /\ got = <<>> /\ served = <<>> /\ collected = <<>> /\ result = <<>>
    /\ exc = <<>> /\ finished = <<>>
    /\ d_in = <<>> /\ d_out = <<>> /\ d_pc = "idle"
    /\ p_original = <<>> /\ p_content = [kind |-> "notjson", items |-> <<>>]
    /\ p_out = [status |-> "pending", entities |-> <<>>] /\ p_pc = "idle"
    /\ x_args = [text |-> <<>>, domains |-> [k |-> "none", v |-> <<>>]] /\ x_key = FALSE
    /\ x_pc = "idle" /\ x_calls = 0 /\ x_entities = <<>> /\ x_response = NoExtractResponse
    /\ c_op = "ols_find_exact" /\ c_query = <<>> /\ c_key = FALSE /\ c_tried = <<>>
    /\ c_sent = 0 /\ c_payload = <<>> /\ c_pc = "idle" /\ c_out = NoOutcome
    /\ c_max_results = 1 /\ c_rows = 0 /\ c_rows_arg = NoRows

ResolveCall ==
    /\ r_pc = "call"
    /\ r_out' = ResolveOntologies(r_configured, r_domain, r_preferred)
    /\ r_pc' = "done"
    /\ UNCHANGED <<r_domain, r_preferred, r_configured, annVars, dedupVars, parseVars,
                   extractVars, clientVars>>

SpecResolve == InitResolve /\ [][ResolveCall]_vars

(***************************************************************************)
(* Properties of _resolve_ontologies (SpecResolve).                        *)
(***************************************************************************)
\* C12: the resolver returns (a) the preferred_ontologies override, lower-cased and
\* in order, whenever an override is supplied (a non-empty list; None and [] are no
\* override), whatever the domain; otherwise (b) the domain's configured ontology
\* list when the domain is one of disease, chemical, gene, phenotype, anatomy,
\* organism; otherwise (c) None, also for an unrecognized domain, never an error.
C12_ResolverContract ==
    r_pc = "done" =>
        IF r_preferred.k = "list" /\ Len(r_preferred.v) > 0
        THEN /\ r_out.k = "list"
             /\ Len(r_out.v) = Len(r_preferred.v)
             /\ \A j \in 1..Len(r_preferred.v) : r_out.v[j] = Lower(r_preferred.v[j])
        ELSE IF r_domain \in {"disease", "chemical", "gene", "phenotype", "anatomy",
                              "organism"}
        THEN r_out = [k |-> "list", v |-> OntologiesForDomain(r_configured, r_domain)]
        ELSE r_out = [k |-> "none", v |-> <<>>]

C12_Witness ==
    /\ r_pc = "done"
    /\ r_domain = "disease"
    /\ r_preferred.k = "list" /\ Len(r_preferred.v) = 3
    /\ r_out.v = << <<"a", "b">>, <<"m", "o">>, <<"a", "b">> >>

(***************************************************************************)
(* ols_client.py / bioportal_client.py: one lookup operation (find_exact,  *)
(* find_by_synonym, fuzzy_search) called on a client, with search and the  *)
(* retrying _get beneath it.  c_tried lists what each attempt of _get      *)
(* ended with.                                                             *)
(***************************************************************************)
\* the public operations of OLSClient and of BioPortalClient that send a
\* /search request
OlsClientOps == OlsOps \cup {"ols_search", "ols_get_term"}
BpClientOps == BpOps \cup {"bp_search"}

\* the rows arguments search is called with directly
RowsArgs == {NoRows, 1, MaxDocs + 1}

\* the rows argument search receives: the caller's, 1 from get_term (line 95),
\* none from find_exact, find_by_synonym and fuzzy_search
RowsArgument(op, rows) ==
    CASE op \in {"ols_search", "bp_search"} -> rows
      [] op = "ols_get_term" -> 1
      [] OTHER -> NoRows

RetryAnyException(e) == TRUE

\* retry_if_exception_type of both _get (ols_client.py line 41,
\* bioportal_client.py line 61)
Retryable(e) == e \in {"TimeoutException", "ConnectError"}

\* the exception _get turns a bad status or an unreadable body into
ProviderError(op) == IF op \in OlsClientOps THEN "OLSError" ELSE "BioPortalError"

\* an attempt of _get ended with exception e: tenacity starts another attempt, or
\* e leaves _get (reraise=True) and search returns [] for the provider's own
\* error and lets every other exception through
AttemptFailed(e) ==
    /\ c_tried' = Append(c_tried, e)
    /\ IF Retryable(e) /\ Len(c_tried) + 1 < StopAfterAttempt
       THEN UNCHANGED <<c_pc, c_out>>
       ELSE /\ c_pc' = "done"
            /\ c_out' = IF e = ProviderError(c_op)
                        THEN [k |-> "returned", v |-> <<>>, e |-> "none"]
                        ELSE [k |-> "raised", v |-> <<>>, e |-> e]
    /\ UNCHANGED <<c_op, c_query, c_key, c_payload, c_max_results, c_rows_arg>>

\* search got the payload: the operation filters and normalises it, or
\* _parse_term raises
AttemptSucceeded(payload) ==
    /\ c_tried' = Append(c_tried, "ok")
    /\ c_payload' = payload
    /\ c_pc' = "done"
    /\ c_out' = IF c_op \in OlsOps /\ ParseRaises(c_op, c_query, payload)
                THEN [k |-> "raised", v |-> <<>>, e |-> "AttributeError"]
                ELSE [k |-> "returned", v |-> Candidates(c_op, c_query, payload),
                      e |-> "none"]
    /\ UNCHANGED <<c_op, c_query, c_key, c_max_results, c_rows_arg>>

\* the docs the primary service may answer a direct call with: those above,
\* one whose label is "B" and whose synonyms are "b" and "ab", and one that
\* holds no key but synonym
ClientOlsDocs ==
    OlsDocs \cup { OlsDoc(<<"B">>, <<"M", ":", "2">>, NoneStr, <<"m", "o">>,
                          [k |-> "list", v |-> << <<"b">>, <<"a", "b">> >>]),
                   OlsDoc(Absent, Absent, Absent, Absent,
                          [k |-> "list", v |-> << <<"A", "b">>, <<"b">> >>]) }

ClientOlsPayloads == SeqsUpTo(ClientOlsDocs, MaxDocs)

\* the result caps a client may be configured with
MaxResultsSettings == 1..MaxDocs

\* ols_client.py line 71, bioportal_client.py line 136: rows or the configured cap
SearchRows(rows, max_results) == IF rows # NoRows THEN rows ELSE max_results

\* is the HTTP request of an attempt sent (bioportal_client.py lines 65-66)
RequestSent == c_op \in OlsClientOps \/ c_key

InitClient ==
    /\ c_op \in OlsClientOps \cup BpClientOps
    /\ c_rows_arg \in IF c_op \in {"ols_search", "bp_search"} THEN RowsArgs ELSE {NoRows}
    /\ c_query \in Queries
    /\ c_key \in BOOLEAN
    /\ c_max_results \in MaxResultsSettings
    /\ c_tried = <<>> /\ c_sent = 0 /\ c_rows = 0 /\ c_payload = <<>>
    /\ c_pc = "called" /\ c_out = NoOutcome
    /\ args = [texts |-> [kind |-> "other", s |-> <<>>, l |-> <<>>], domain |-> "None",
               use_bioportal_fallback |-> FALSE, min_confidence |-> 70]
    /\ settings = [bioportal_api_key |-> FALSE] /\ closed = {}
    /\ hpc = "idle" /\ response = NoResponse /\ bpc = "idle"
    /\ results = <<>> /\ texts = <<>> /\ pc = <<>> /\ attempt = <<>>
    /\ calls = <<>> /\ got = <<>> /\ served = <<>> /\ collected = <<>> /\ result = <<>>
    /\ exc = <<>> /\ finished = <<>>
    /\ d_in = <<>> /\ d_out = <<>> /\ d_pc = "idle"
    /\ p_original = <<>> /\ p_content = [kind |-> "notjson", items |-> <<>>]
    /\ p_out = [status |-> "pending", entities |-> <<>>] /\ p_pc = "idle"
    /\ x_args = [text |-> <<>>, domains |-> [k |-> "none", v |-> <<>>]] /\ x_key = FALSE
    /\ x_pc = "idle" /\ x_calls = 0 /\ x_entities = <<>> /\ x_response = NoExtractResponse
    /\ r_domain = "None" /\ r_preferred = [k |-> "none", v |-> <<>>]
    /\ r_configured = NoneStr /\ r_out = [k |-> "none", v |-> <<>>] /\ r_pc = "idle"

\* bioportal_client.py lines 65-66: no api key, _get raises before any request
ClientKeyMissing ==
    /\ c_pc = "called"
    /\ ~RequestSent
    /\ AttemptFailed("BioPortalError")
    /\ UNCHANGED <<c_sent, c_rows, annVars, dedupVars, parseVars, extractVars, resolveVars>>

\* the request timed out or the connection failed
ClientTransientFailure ==
    /\ c_pc = "called"
    /\ RequestSent
    /\ c_sent' = c_sent + 1
    /\ c_rows' = SearchRows(RowsArgument(c_op, c_rows_arg), c_max_results)
    /\ \E e \in {"TimeoutException", "ConnectError"} : AttemptFailed(e)
    /\ UNCHANGED <<annVars, dedupVars, parseVars, extractVars, resolveVars>>

\* a bad HTTP status, or a body that is no JSON
ClientProtocolFailure ==
    /\ c_pc = "called"
    /\ RequestSent
    /\ c_sent' = c_sent + 1
    /\ c_rows' = SearchRows(RowsArgument(c_op, c_rows_arg), c_max_results)
    /\ AttemptFailed(ProviderError(c_op))
    /\ UNCHANGED <<annVars, dedupVars, parseVars, extractVars, resolveVars>>

\* the body is JSON but no object: OLSClient.search calls data.get (line 88),
\* BioPortalClient.search returns [] (lines 152-153)
ClientPayloadNotDict ==
    /\ c_pc = "called"
    /\ RequestSent
    /\ c_sent' = c_sent + 1
    /\ c_rows' = SearchRows(RowsArgument(c_op, c_rows_arg), c_max_results)
    /\ c_tried' = Append(c_tried, "ok")
    /\ c_pc' = "done"
    /\ c_out' = IF c_op \in OlsClientOps
                THEN [k |-> "raised", v |-> <<>>, e |-> "AttributeError"]
                ELSE [k |-> "returned", v |-> <<>>, e |-> "none"]
    /\ UNCHANGED <<c_op, c_query, c_key, c_payload, c_max_results, c_rows_arg, annVars,
                   dedupVars, parseVars, extractVars, resolveVars>>

\* the primary service answers with docs
ClientOlsResponds ==
    /\ c_pc = "called"
    /\ c_op \in OlsClientOps
    /\ c_sent' = c_sent + 1
    /\ c_rows' = SearchRows(RowsArgument(c_op, c_rows_arg), c_max_results)
    /\ \E docs \in ClientOlsPayloads : AttemptSucceeded(docs)
    /\ UNCHANGED <<annVars, dedupVars, parseVars, extractVars, resolveVars>>

\* the fallback service answers with a collection
ClientBpResponds ==
    /\ c_pc = "called"
    /\ c_op \in BpClientOps
    /\ RequestSent
    /\ c_sent' = c_sent + 1
    /\ c_rows' = SearchRows(RowsArgument(c_op, c_rows_arg), c_max_results)
    /\ \E items \in BpPayloads : AttemptSucceeded(items)
    /\ UNCHANGED <<annVars, dedupVars, parseVars, extractVars, resolveVars>>

NextClient ==
    \/ ClientKeyMissing
    \/ ClientTransientFailure
    \/ ClientProtocolFailure
    \/ ClientPayloadNotDict
    \/ ClientOlsResponds
    \/ ClientBpResponds

SpecClient == InitClient /\ [][NextClient]_vars

\* every attempt ends (the clients' timeouts) and the wait between two attempts is
\* bounded (wait_exponential max=10), so an operation that can step does step
SpecClientFair == SpecClient /\ WF_vars(NextClient)

(***************************************************************************)
(* Properties of the lookup operations (SpecClient, SpecClientFair).       *)
(***************************************************************************)
\* does the raw record carry a synonym equal to q when case is ignored
HasSynonym(doc, q) ==
    /\ doc.synonym.k \in {"list", "str"}
    /\ \E j \in 1..Len(doc.synonym.v) : Lower(doc.synonym.v[j]) = Lower(q)

\* is the raw record's label equal to q when case is ignored
LabelIs(label, q) == label \notin {NoneStr, Absent} /\ Lower(label) = Lower(q)

\* C14: find_by_synonym of the primary provider returns exactly the searched
\* candidates that have a synonym case-insensitively equal to the query and whose
\* label is not itself equal to the query; a record whose synonym field is absent
\* or null is never returned as a synonym match.
C14_FindBySynonymExactlyTheSynonymMatches ==
    (c_pc = "done" /\ c_op = "ols_find_by_synonym" /\ c_out.k = "returned") =>
        LET wanted(doc) == HasSynonym(doc, c_query) /\ ~LabelIs(doc.label, c_query)
            chosen == SelectSeq(c_payload, wanted)
        IN  /\ Len(c_out.v) = Len(chosen)
            /\ \A j \in 1..Len(chosen) :
                  /\ Or(c_out.v[j].label, <<>>) = Or(chosen[j].label, <<>>)
                  /\ c_out.v[j].synonyms = chosen[j].synonym.v
                  /\ c_out.v[j].synonyms # <<>>
                  /\ \E n \in 1..Len(c_out.v[j].synonyms) :
                        Lower(c_out.v[j].synonyms[n]) = Lower(c_query)
            /\ \A j \in 1..Len(c_payload) :
                  c_payload[j].synonym.k \in {"absent", "null"} => ~wanted(c_payload[j])

C14_Witness ==
    /\ c_pc = "done" /\ c_op = "ols_find_by_synonym" /\ c_out.k = "returned"
    /\ c_query = <<"b">>
    /\ Len(c_payload) = 2
    /\ c_payload[1].synonym.k = "null"
    /\ c_payload[2].synonym.k = "str"
    /\ Len(c_out.v) = 1

\* C15: a missing required credential is a hard error: a lookup of the fallback
\* provider's client without its key raises before any request is sent, and the
\* error reaches the caller instead of an empty result.
C15_MissingCredentialIsHardError ==
    (c_pc = "done" /\ c_op \in BpOps /\ ~c_key) =>
        (c_sent = 0 /\ c_out.k = "raised")

\* C18: find_exact of either provider does not trust the remote exact flag: every
\* candidate it returns has a label case-insensitively equal to the query, and
\* every candidate of the response with such a label is returned.
C18_FindExactRefilters ==
    (c_pc = "done" /\ c_op \in {"ols_find_exact", "bp_find_exact"} /\ c_out.k = "returned") =>
        LET rawLabel(rec) == IF c_op = "ols_find_exact" THEN rec.label ELSE rec.prefLabel
            wanted(rec) == LabelIs(rawLabel(rec), c_query)
            chosen == SelectSeq(c_payload, wanted)
        IN  /\ \A j \in 1..Len(c_out.v) : Lower(c_out.v[j].label) = Lower(c_query)
            /\ Len(c_out.v) = Len(chosen)
            /\ \A j \in 1..Len(chosen) : c_out.v[j].label = rawLabel(chosen[j])

C18_Witness ==
    /\ c_pc = "done" /\ c_op = "ols_find_exact" /\ c_out.k = "returned"
    /\ c_query = <<"a", "b">>
    /\ Len(c_payload) = 2
    /\ c_payload[1].label = NoneStr
    /\ c_payload[2].label = <<"A", "B">>
    /\ Len(c_out.v) = 1

\* C22: fuzzy_search of either provider returns every candidate of the response to
\* its non-exact search, normalised and unfiltered, and never more candidates than
\* the result cap the client is configured with, whatever the service answered.
C22_FuzzySearchUnfilteredUpToCap ==
    (c_pc = "done" /\ c_op \in {"ols_fuzzy_search", "bp_fuzzy_search"}
        /\ c_out.k = "returned") =>
        /\ c_out.v = IF c_op \in OlsOps THEN ParseTerms(c_payload)
                     ELSE ParseResults(c_payload)
        /\ Len(c_out.v) <= c_max_results

\* what C19 asks of the attempts made so far
AttemptsBounded ==
    /\ Len(c_tried) <= 3
    /\ c_sent <= 3
    /\ \A j \in 1..Len(c_tried) :
          j < Len(c_tried) => c_tried[j] \in {"TimeoutException", "ConnectError"}
    /\ c_pc = "called" =>
          \A j \in 1..Len(c_tried) : c_tried[j] \in {"TimeoutException", "ConnectError"}

\* C19: a provider request is attempted at most 3 times; it is re-attempted only
\* after a timeout or a connection error, and a protocol failure (bad HTTP status,
\* malformed payload) ends it after that one attempt; hence every provider
\* operation terminates.
C19_BoundedRetriesAndTermination ==
    /\ []AttemptsBounded
    /\ <>(c_pc = "done")

C19_Witness ==
    /\ c_pc = "done"
    /\ c_tried = <<"TimeoutException", "ConnectError", "OLSError">>
    /\ c_sent = 3
    /\ c_out.k = "returned"

(***************************************************************************)
(* Properties of _deduplicate (SpecDedup).                                 *)
(***************************************************************************)
\* the group of a match: its ontology with its term_id, or, when the term_id is
\* empty, its ontology with its label
SameGroup(m, n) ==
    /\ m.ontology = n.ontology
    /\ IF m.term_id # <<>> THEN n.term_id = m.term_id
       ELSE n.term_id = <<>> /\ n.label = m.label

FirstOfGroup(ms, i) == \A j \in 1..(i - 1) : ~SameGroup(ms[j], ms[i])

RECURSIVE FirstsFrom(_, _)
\* the elements of ms from index i on that are the first of their group
FirstsFrom(ms, i) ==
    IF i > Len(ms) THEN <<>>
    ELSE (IF FirstOfGroup(ms, i) THEN <<ms[i]>> ELSE <<>>) \o FirstsFrom(ms, i + 1)

\* C4: deduplication keeps of every group of matches with equal (ontology, term_id)
\* (or equal (ontology, label) when term_id is empty) exactly one match, the first
\* encountered, so that matches of different ontologies are all kept.
C4_DedupKeepsFirstOfEachGroup ==
    d_pc = "done" => d_out = FirstsFrom(d_in, 1)

\* C25: deduplication removes a match only when an earlier match of the list has
\* the same ontology and the same identity (the same non-empty term_id, or, both
\* term_ids empty, the same label): a match that is the first of its group, whatever
\* characters its fields hold, is still in the returned list.
C25_DedupRemovesOnlyGroupDuplicates ==
    d_pc = "done" =>
        \A i \in 1..Len(d_in) :
            FirstOfGroup(d_in, i) => \E k \in 1..Len(d_out) : d_out[k] = d_in[i]

(***************************************************************************)
(* Properties of _parse_response (SpecParse).                              *)
(***************************************************************************)
\* C8: for a malformed extractor response (no JSON, no list, elements of the wrong
\* shape, a domain outside the fixed set) parsing never raises: it returns a list
\* that holds none of the malformed entities.
C8_ParseNeverRaises ==
    p_pc = "done" =>
        /\ p_out.status = "ok"
        /\ \A e \in Range(p_out.entities) : e.text # <<>> /\ e.domain \in VALID_DOMAINS

\* C9: every accepted entity satisfies original_text[start_pos:end_pos] == text,
\* repaired offsets included.
C9_OffsetsSliceToText ==
    p_pc = "done" =>
        \A e \in Range(p_out.entities) : Slice(p_original, e.start_pos, e.end_pos) = e.text

\* C23: every accepted entity carries in-range offsets:
\* 0 <= start_pos <= end_pos <= len(original_text) and end_pos - start_pos =
\* len(text); no out-of-range or negative offset is passed through unrepaired.
C23_OffsetsInRange ==
    p_pc = "done" =>
        \A e \in Range(p_out.entities) :
            /\ 0 <= e.start_pos
            /\ e.start_pos <= e.end_pos
            /\ e.end_pos <= Len(p_original)
            /\ e.end_pos - e.start_pos = Len(e.text)

\* the first index at which text occurs in original_text when case is ignored:
\* the lowest i with original_text[i:i+len(text)].lower() == text.lower(), -1 if none
FirstOccurrenceIgnoringCase(original_text, text) ==
    LET hits == {i \in 0..(Len(original_text) - Len(text)) :
                    Lower(SubSeq(original_text, i + 1, i + Len(text))) = Lower(text)}
    IN  IF hits = {} THEN -1 ELSE CHOOSE i \in hits : \A j \in hits : i <= j

\* what C10 asks of one element of the right shape
ExpectedEntity(ent, original_text) ==
    LET asGiven == [text |-> ent.text.s, start_pos |-> ent.start_pos.n,
                    end_pos |-> ent.end_pos.n, domain |-> ent.domain.d,
                    extraction_confidence |-> ent.confidence.n]
        idx == FirstOccurrenceIgnoringCase(original_text, ent.text.s)
    IN  IF ~NeedsRepair(ent, original_text) THEN <<asGiven>>
        ELSE IF idx = -1 THEN <<>>
        ELSE << [asGiven EXCEPT !.start_pos = idx, !.end_pos = idx + Len(ent.text.s)] >>

RECURSIVE ExpectedEntities(_, _)
ExpectedEntities(items, original_text) ==
    IF items = <<>> THEN <<>>
    ELSE ExpectedEntity(Head(items), original_text)
         \o ExpectedEntities(Tail(items), original_text)

\* C10: an entity whose offsets are missing or do not slice the original text to
\* its text gets start = the index of the first case-insensitive occurrence of the
\* text in the original string and end = start + len(text); without an occurrence
\* it is dropped, with no error and no effect on the other entities.
C10_OffsetsRepairedToFirstOccurrence ==
    (/\ p_pc = "done"
     /\ p_content.kind = "list"
     /\ Range(p_content.items) \subseteq WellFormedElements)
        => (/\ p_out.status = "ok"
            /\ p_out.entities = ExpectedEntities(p_content.items, p_original))

====
